---- MODULE Spec2Model ----
(***************************************************************************)
(* Model of sourmash's sketch comparison classes                           *)
(* (src/src/sourmash/sketchcomparison.py): BaseMinHashComparison,          *)
(* NumMinHashComparison and FracMinHashComparison.                         *)
(*                                                                         *)
(* Sketch objects live in a heap (object id -> sketch value) so that       *)
(* aliasing (self.mh1_cmp = self.mh1) and in-place mutation                *)
(* (abund_mh.track_abundance = True) are visible.  The MinHash engine      *)
(* (.signature / minhash) is not part of the source under study; its       *)
(* operations are modelled from the collaborator contract of the           *)
(* specification (section 6).  Every public method can be called on an     *)
(* object the caller holds, in any order and any number of times.          *)
(***************************************************************************)
EXTENDS Integers, FiniteSets, Sequences, TLC

\* ---------------------------------------------------------------- bounds
\* hash values are 1..MaxHash
MaxHash == 2
\* abundances are 1..MaxAbund
MaxAbund == 2
\* resolutions (num of a fixed-size sketch, scaled of a fixed-rate sketch)
\* are 1..MaxRes
MaxRes == 2

\* python's None for the optional integer fields cmp_num / cmp_scaled
None == -1
\* an attribute that has not been assigned (object reference or ksize)
Unset == 0
\* moltype attribute not assigned
NoMoltype == "unset"

\* values of threshold_bp tried: 0 is the default of the field, the other
\* is tried on the pairs of every content
Thresholds == {0, 3}

Hashes == 1..MaxHash
Abunds == 1..MaxAbund
Resolutions == 1..MaxRes

\* ------------------------------------------------- the sketch engine
\* largest hash a fixed-rate sketch of the given rate keeps
max_hash(scaled) == IF scaled = 0 THEN 0 ELSE MaxHash \div scaled

\* the n smallest elements of a set of hashes
RECURSIVE Smallest(_, _)
Smallest(S, n) ==
    IF n = 0 \/ S = {} THEN {}
    ELSE LET m == CHOOSE x \in S : \A y \in S : x <= y
         IN {m} \cup Smallest(S \ {m}, n - 1)

\* hash -> abundance mappings over a set of hashes
AbundMaps(S) == [S -> Abunds]
FlatMaps(S) == [S -> {1}]

\* MinHash.flatten(): structural copy with abundance mode off
flatten(mh) ==
    [mh EXCEPT !.track_abundance = FALSE,
               !.hashes = [h \in DOMAIN mh.hashes |-> 1]]

\* can MinHash.downsample(num=, scaled=) be satisfied?  A sketch cannot
\* change kind and can only be coarsened.
can_downsample(mh, num, scaled) ==
    IF scaled # None
    THEN mh.num = 0 /\ scaled >= mh.scaled /\ scaled > 0
    ELSE num # None /\ mh.scaled = 0 /\ num <= mh.num /\ num > 0

\* MinHash.downsample(num=, scaled=): copy reduced to the new resolution
downsample(mh, num, scaled) ==
    IF scaled # None
    THEN LET keep == {h \in DOMAIN mh.hashes : h <= max_hash(scaled)}
         IN [mh EXCEPT !.scaled = scaled,
                       !.hashes = [h \in keep |-> mh.hashes[h]]]
    ELSE LET keep == Smallest(DOMAIN mh.hashes, num)
         IN [mh EXCEPT !.num = num,
                       !.hashes = [h \in keep |-> mh.hashes[h]]]

\* MinHash.is_compatible(other): checks ksize, moltype and scaled, not num
is_compatible(a, b) ==
    /\ a.ksize = b.ksize
    /\ a.moltype = b.moltype
    /\ a.scaled = b.scaled

\* MinHash.intersection(other): new flat sketch over the common hashes
intersection(a, b) ==
    [a EXCEPT !.track_abundance = FALSE,
              !.hashes = [h \in (DOMAIN a.hashes) \cap (DOMAIN b.hashes) |-> 1]]

\* len(mh)
len(mh) == Cardinality(DOMAIN mh.hashes)

\* a ratio p/q kept as a pair (the engine returns a float)
Ratio(p, q) == IF q = 0 THEN <<0, 1>> ELSE <<p, q>>

\* MinHash.jaccard(other)
jaccard_of(a, b) ==
    Ratio(Cardinality((DOMAIN a.hashes) \cap (DOMAIN b.hashes)),
          Cardinality((DOMAIN a.hashes) \cup (DOMAIN b.hashes)))

\* MinHash.contained_by(other)
contained_by(a, b) ==
    Ratio(Cardinality((DOMAIN a.hashes) \cap (DOMAIN b.hashes)), len(a))

\* MinHash.max_containment(other)
max_containment_of(a, b) ==
    Ratio(Cardinality((DOMAIN a.hashes) \cap (DOMAIN b.hashes)),
          IF len(a) <= len(b) THEN len(a) ELSE len(b))

\* MinHash.angular_similarity(other) is defined only when both sides track
\* abundance; the value is kept as the dot product and the two squared norms
can_angular(a, b) == a.track_abundance /\ b.track_abundance

RECURSIVE SumOver(_, _)
SumOver(S, f) ==
    IF S = {} THEN 0
    ELSE LET x == CHOOSE y \in S : TRUE
         IN f[x] + SumOver(S \ {x}, f)

angular_of(a, b) ==
    LET common == (DOMAIN a.hashes) \cap (DOMAIN b.hashes)
    IN <<SumOver(common, [h \in common |-> a.hashes[h] * b.hashes[h]]),
         SumOver(DOMAIN a.hashes, [h \in DOMAIN a.hashes |-> a.hashes[h] * a.hashes[h]]),
         SumOver(DOMAIN b.hashes, [h \in DOMAIN b.hashes |-> b.hashes[h] * b.hashes[h]])>>

\* MinHash.copy_and_clear(): same parameters, no hashes
copy_and_clear(mh) == [mh EXCEPT !.hashes = [h \in {} |-> 1]]

\* MinHash.set_abundances(mapping) on a sketch that tracks abundance
set_abundances(mh, abunds) == [mh EXCEPT !.hashes = abunds]

\* dict.get(k, default)
get(d, k, default) == IF k \in DOMAIN d THEN d[k] ELSE default

\* ------------------------------------------------------------- the heap
\* Objects are named by an id.  The originals are objects 1 and 2.  The
\* other ids name the objects the engine makes: the flattened copy of
\* original m, the sketch downsample makes for mh1_cmp (slot 1) or mh2_cmp
\* (slot 2) when it makes one, the sketch a property returns, the sketch
\* weighted_intersection fills.
FlatOf(m) == m + 2
DownOf(slot) == slot + 4
IntersectObj == 7
AbundObj == 8

\* the heap with object id holding v
Put(h, id, v) == [i \in (DOMAIN h) \cup {id} |-> IF i = id THEN v ELSE h[i]]

\* objects no longer referenced are dropped
Collect(h, live) == [i \in (DOMAIN h) \cap live |-> h[i]]

\* --------------------------------------------- BaseMinHashComparison
\* (mutation) only the first original is flattened
handle_ignore_abundance_first(h, m1, m2, ignore) ==
    IF ignore
    THEN [heap |-> Put(h, FlatOf(m1), flatten(h[m1])),
          mh1_cmp |-> FlatOf(m1), mh2_cmp |-> m2]
    ELSE [heap |-> h, mh1_cmp |-> m1, mh2_cmp |-> m2]

\* (mutation) the originals are used as they are, also with ignore_abundance
handle_ignore_abundance_never(h, m1, m2, ignore) ==
    [heap |-> h, mh1_cmp |-> m1, mh2_cmp |-> m2]

\* lines 21-26: flatten both originals, or use them as they are
handle_ignore_abundance(h, m1, m2, ignore) ==
    IF ignore
    THEN [heap |-> Put(Put(h, FlatOf(m1), flatten(h[m1])),
                       FlatOf(m2), flatten(h[m2])),
          mh1_cmp |-> FlatOf(m1), mh2_cmp |-> FlatOf(m2)]
    ELSE [heap |-> h, mh1_cmp |-> m1, mh2_cmp |-> m2]

\* the sketch already has the resolution asked for
at_resolution(mh, num, scaled) ==
    IF scaled # None THEN mh.scaled = scaled ELSE mh.num = num

\* The object mh.downsample(...) returns, for the receiver h[ref].  The
\* engine's contract does not say whether a sketch that already has the
\* resolution is copied or returned as it is: reuse is the engine's choice.
\* Any other sketch is reduced into a new object.
downsample_ref(h, ref, slot, num, scaled, reuse) ==
    IF reuse /\ at_resolution(h[ref], num, scaled) THEN ref ELSE DownOf(slot)

\* the heap after that call
downsample_heap(h, ref, slot, num, scaled, reuse) ==
    IF reuse /\ at_resolution(h[ref], num, scaled) THEN h
    ELSE Put(h, DownOf(slot), downsample(h[ref], num, scaled))

\* (mutation) only the first sketch is downsampled
downsample_first_only(s, num, scaled, reuse) ==
    IF ~can_downsample(s.heap[s.mh1_cmp], num, scaled)
    THEN [heap |-> s.heap, mh1_cmp |-> s.mh1_cmp, mh2_cmp |-> s.mh2_cmp,
          err |-> "DownsampleError", ndown |-> 1]
    ELSE [heap |-> downsample_heap(s.heap, s.mh1_cmp, 1, num, scaled, reuse),
          mh1_cmp |-> downsample_ref(s.heap, s.mh1_cmp, 1, num, scaled, reuse),
          mh2_cmp |-> s.mh2_cmp,
          err |-> "ok", ndown |-> 1]

\* lines 28-29 / 31-32: s is the object state lines 21-26 left; mh1_cmp is
\* rebound to what downsample returns for it, then mh2_cmp, each call
\* failing with the engine's error when the sketch cannot be brought to the
\* resolution
downsample_both(s, num, scaled, reuse) ==
    IF ~can_downsample(s.heap[s.mh1_cmp], num, scaled)
    THEN [heap |-> s.heap, mh1_cmp |-> s.mh1_cmp, mh2_cmp |-> s.mh2_cmp,
          err |-> "DownsampleError", ndown |-> 1]
    ELSE IF ~can_downsample(s.heap[s.mh2_cmp], num, scaled)
    THEN [heap |-> downsample_heap(s.heap, s.mh1_cmp, 1, num, scaled, reuse),
          mh1_cmp |-> downsample_ref(s.heap, s.mh1_cmp, 1, num, scaled, reuse),
          mh2_cmp |-> s.mh2_cmp,
          err |-> "DownsampleError", ndown |-> 2]
    ELSE [heap |-> downsample_heap(
                       downsample_heap(s.heap, s.mh1_cmp, 1, num, scaled, reuse),
                       s.mh2_cmp, 2, num, scaled, reuse),
          mh1_cmp |-> downsample_ref(s.heap, s.mh1_cmp, 1, num, scaled, reuse),
          mh2_cmp |-> downsample_ref(s.heap, s.mh2_cmp, 2, num, scaled, reuse),
          err |-> "ok", ndown |-> 2]

\* lines 27-34: by rate when one is passed, else by sample count, else fail
downsample_to(s, num, scaled, reuse) ==
    IF scaled # None THEN downsample_both(s, None, scaled, reuse)
    ELSE IF num # None THEN downsample_both(s, num, None, reuse)
    ELSE [heap |-> s.heap, mh1_cmp |-> s.mh1_cmp, mh2_cmp |-> s.mh2_cmp,
          err |-> "NoResolution", ndown |-> 0]

\* lines 17-34
downsample_and_handle_ignore_abundance(h, m1, m2, ignore, num, scaled, reuse) ==
    downsample_to(handle_ignore_abundance(h, m1, m2, ignore),
                  num, scaled, reuse)

\* (mutation) "or" for "and"
same_kind_or(a, b) ==
    \/ (a.num # 0 \/ b.num # 0)
    \/ (a.scaled # 0 \/ b.scaled # 0)

\* line 37: any([(mh1.num and mh2.num), (mh1.scaled and mh2.scaled)])
same_kind(a, b) ==
    \/ (a.num # 0 /\ b.num # 0)
    \/ (a.scaled # 0 /\ b.scaled # 0)

\* (mutation) the originals are checked, not the downsampled sketches
compatible_originals(h, m1, m2, d) == is_compatible(h[m1], h[m2])

\* line 42: self.mh1_cmp.is_compatible(self.mh2_cmp)
compatible(h, m1, m2, d) ==
    is_compatible(d.heap[d.mh1_cmp], d.heap[d.mh2_cmp])

\* (mutation) the pass-through fields are assigned before the check
passthrough_before_check(mh, passed, cur) ==
    [ksize |-> mh.ksize, moltype |-> mh.moltype]

\* lines 44-45: the pass-through fields, assigned once the check has passed;
\* a raise leaves them as they were (cur)
passthrough(mh, passed, cur) ==
    IF passed THEN [ksize |-> mh.ksize, moltype |-> mh.moltype]
    ELSE [ksize |-> cur.ksize, moltype |-> cur.moltype]

\* lines 42-45: d is the object state line 41 left, cur the fields the
\* object had when the method was called
check_compatibility(h, m1, m2, d, cur) ==
    [heap |-> Collect(d.heap, {m1, m2, d.mh1_cmp, d.mh2_cmp}),
     mh1_cmp |-> d.mh1_cmp, mh2_cmp |-> d.mh2_cmp,
     ksize |-> passthrough(h[m1],
                   d.err = "ok" /\ compatible(h, m1, m2, d), cur).ksize,
     moltype |-> passthrough(h[m1],
                   d.err = "ok" /\ compatible(h, m1, m2, d), cur).moltype,
     err |-> IF d.err # "ok" THEN d.err
             ELSE IF compatible(h, m1, m2, d) THEN "ok" ELSE "Incompatible",
     ndown |-> d.ndown]

\* lines 36-45: the fields of the comparison after the call, and its
\* outcome; a raise at line 38 leaves every field as it was (cur)
check_compatibility_and_downsample(h, m1, m2, ignore, num, scaled, cur, reuse) ==
    IF ~same_kind(h[m1], h[m2])
    THEN [heap |-> h, mh1_cmp |-> cur.mh1_cmp, mh2_cmp |-> cur.mh2_cmp,
          ksize |-> cur.ksize, moltype |-> cur.moltype,
          err |-> "TypeMismatch", ndown |-> 0]
    ELSE check_compatibility(h, m1, m2,
             downsample_and_handle_ignore_abundance(h, m1, m2, ignore,
                                                    num, scaled, reuse),
             cur)

\* (mutation) the finer of the two rates
default_cmp_scaled_min(a, b) == IF a.scaled <= b.scaled THEN a.scaled ELSE b.scaled

\* line 78
default_cmp_num(a, b) == IF a.num <= b.num THEN a.num ELSE b.num
\* line 93
default_cmp_scaled(a, b) == IF a.scaled >= b.scaled THEN a.scaled ELSE b.scaled

\* line 50: self.mh1_cmp.flatten().intersection(self.mh2_cmp.flatten())
intersect_value(h, c1, c2) == intersection(flatten(h[c1]), flatten(h[c2]))

\* lines 47-50: the heap holding the new sketch, and its reference
intersect_mh(h, c1, c2) ==
    [heap |-> Put(h, IntersectObj, intersect_value(h, c1, c2)),
     ref |-> IntersectObj]

\* (mutation) the originals are compared, not the comparison sketches
angular_similarity_of_originals(h, c1, c2) ==
    IF can_angular(h[1], h[2])
    THEN [t |-> "angular", v |-> angular_of(h[1], h[2])]
    ELSE [t |-> "error", v |-> "UnsupportedOperation"]

\* lines 60-63: the engine refuses when either side lacks abundance
angular_similarity(h, c1, c2) ==
    IF can_angular(h[c1], h[c2])
    THEN [t |-> "angular", v |-> angular_of(h[c1], h[c2])]
    ELSE [t |-> "error", v |-> "UnsupportedOperation"]

\* lines 100-102
intersect_bp(h, c1, c2, scaled) == len(intersect_value(h, c1, c2)) * scaled

\* lines 96-98
pass_threshold(h, c1, c2, scaled, threshold) ==
    intersect_bp(h, c1, c2, scaled) >= threshold

\* np.mean of two ratios
mean(a, b) == <<a[1] * b[2] + b[1] * a[2], 2 * a[2] * b[2]>>

\* lines 134-136: np.mean of the two directional containments
avg_containment(h, c1, c2) ==
    mean(contained_by(h[c1], h[c2]), contained_by(h[c2], h[c1]))

\* no abundance source sketch passed (from_mh=None)
NoSource == [given |-> FALSE, track_abundance |-> FALSE, hashes |-> <<>>]

\* (mutation) an explicit mapping wins over the source sketch
abundance_source_dict_first(from_mh, from_abundD) ==
    IF DOMAIN from_abundD # {} THEN from_abundD
    ELSE IF from_mh.given /\ from_mh.track_abundance THEN from_mh.hashes
    ELSE from_abundD

\* lines 147-149: a source sketch that tracks abundance takes precedence
abundance_source(from_mh, from_abundD) ==
    IF from_mh.given /\ from_mh.track_abundance
    THEN from_mh.hashes ELSE from_abundD

\* line 152: the abundance of every hash of intersect_mh, 1 when the source
\* has none
abunds(h, c1, c2, abundD) ==
    [k \in DOMAIN intersect_value(h, c1, c2).hashes |-> get(abundD, k, 1)]

\* lines 145-146 and 153: the cleared copy of intersect_mh with abundance
\* tracking switched on and the abundances set
abund_mh(h, c1, c2, abundD) ==
    set_abundances([copy_and_clear(intersect_value(h, c1, c2))
                       EXCEPT !.track_abundance = TRUE],
                   abunds(h, c1, c2, abundD))

\* (mutation) the abundances are written into mh1_cmp itself
fill_abundances_in_place(h, c1, c2, abundD) ==
    IF DOMAIN abundD # {}
    THEN [heap |-> [h EXCEPT ![c1] =
                       set_abundances([@ EXCEPT !.track_abundance = TRUE],
                                      abunds(h, c1, c2, abundD))],
          ref |-> c1]
    ELSE intersect_mh(h, c1, c2)

\* lines 145-157 for the chosen source abundD
fill_abundances(h, c1, c2, abundD) ==
    IF DOMAIN abundD # {}
    THEN [heap |-> Put(h, AbundObj, abund_mh(h, c1, c2, abundD)),
          ref |-> AbundObj]
    ELSE intersect_mh(h, c1, c2)

\* lines 143-157: the heap after the call and the returned object
weighted_intersection(h, c1, c2, from_mh, from_abundD) ==
    fill_abundances(h, c1, c2, abundance_source(from_mh, from_abundD))

\* ---------------------------------------------------------------- inputs
\* the hash sets a sketch of the given kind and resolution can hold
HashSets(num, scaled) ==
    IF scaled # 0
    THEN SUBSET {h \in Hashes : h <= max_hash(scaled)}
    ELSE {S \in SUBSET Hashes : Cardinality(S) <= num}

\* the largest of them
FullHashSet(num, scaled) ==
    IF scaled # 0
    THEN {h \in Hashes : h <= max_hash(scaled)}
    ELSE {h \in Hashes : h <= num}

Sketch(num, scaled, k, m, track, f) ==
    [num |-> num, scaled |-> scaled, ksize |-> k, moltype |-> m,
     track_abundance |-> track, hashes |-> f]

\* a sketch is fixed-size (num > 0, scaled = 0) or fixed-rate (the reverse)
Kinds == {<<n, 0>> : n \in Resolutions} \cup {<<0, r>> : r \in Resolutions}

\* a sketch of the given kind, resolution, ksize, moltype and abundance
\* mode, holding all the hashes its resolution allows
Full(kr, k, m, t) ==
    Sketch(kr[1], kr[2], k, m, t,
           [h \in FullHashSet(kr[1], kr[2]) |-> IF t THEN MaxAbund ELSE 1])

\* the (ksize, moltype) of the two sketches of a pair: the same, or
\* different in ksize, or different in moltype
IdentityPairs ==
    {<<31, "protein", 31, "protein">>,
     <<21, "DNA", 31, "DNA">>, <<21, "DNA", 21, "protein">>}

\* pairs of every two kinds, resolutions and abundance modes
StructPairs ==
    { <<Full(k1, i[1], i[2], t1), Full(k2, i[3], i[4], t2)>>
      : k1 \in Kinds, k2 \in Kinds, i \in IdentityPairs,
        t1 \in BOOLEAN, t2 \in BOOLEAN }

\* sketches of one ksize and moltype with the given contents: flat (a = 0)
\* or with abundance a for all their hashes
WithHashes(num, scaled, a, sets) ==
    { Sketch(num, scaled, 21, "DNA", a > 0,
             [h \in S |-> IF a > 0 THEN a ELSE 1])
      : S \in sets }

\* every content the resolution allows
ContentsOf(num, scaled, a) ==
    WithHashes(num, scaled, a, HashSets(num, scaled))

\* no hash, or all the hashes the resolution allows
Extremes(num, scaled, a) ==
    WithHashes(num, scaled, a, {{}, FullHashSet(num, scaled)})

\* pairs of one kind and abundance mode: the first empty or full at the
\* resolution that keeps most hashes, the second of any content at any
\* resolution
ContentPairs ==
    UNION { (Extremes(0, 1, a)
               \X UNION {ContentsOf(0, r, a) : r \in Resolutions})
            \cup (Extremes(MaxRes, 0, a)
               \X UNION {ContentsOf(n, 0, a) : n \in Resolutions})
            : a \in {0, MaxAbund} }

InputPairs == StructPairs \cup ContentPairs

\* optional resolution override of a constructor
Overrides == {None} \cup Resolutions

\* the (cmp_num, cmp_scaled) keywords of a call of a normalization method:
\* none, one of them, or both
CallArgs ==
    {<<None, None>>, <<MaxRes, MaxRes>>}
    \cup {<<n, None>> : n \in Resolutions}
    \cup {<<None, r>> : r \in Resolutions}

\* hash -> abundance mappings a caller may pass to weighted_intersection
Dicts == UNION {AbundMaps(S) : S \in SUBSET Hashes}
AllMax == [h \in Hashes |-> MaxAbund]

SourceOf(mh) ==
    [given |-> TRUE, track_abundance |-> mh.track_abundance, hashes |-> mh.hashes]

\* every abundance source: no sketch, a flat sketch, or a sketch with any
\* abundances, beside an explicit mapping (any mapping when no sketch is
\* passed; with a sketch, the empty default or a mapping that gives every
\* hash another abundance than 1)
Sources ==
    {NoSource}
    \cup {[given |-> TRUE, track_abundance |-> TRUE, hashes |-> d] : d \in Dicts}
    \cup {[given |-> TRUE, track_abundance |-> FALSE,
           hashes |-> [h \in Hashes |-> 1]]}
WIArgs ==
    {a \in Sources \X Dicts :
        a[1].given => a[2] \in {<<>>, AllMax}}

\* ----------------------------------------------------------------- state
VARIABLES
    heap,             \* object id -> sketch
    mh1, mh2,         \* fields mh1, mh2: references to the originals
    ignore_abundance, \* field ignore_abundance
    variant,          \* "num", "frac" or "base": the class constructed
    cmp_num,          \* field cmp_num (NumMinHashComparison)
    cmp_scaled,       \* field cmp_scaled (FracMinHashComparison)
    threshold_bp,     \* field threshold_bp (FracMinHashComparison)
    mh1_cmp, mh2_cmp, \* fields mh1_cmp, mh2_cmp: references, or Unset
    ksize, moltype,   \* fields ksize, moltype, or Unset / NoMoltype
    pc,               \* "init": __init__ has stored the fields and
                      \* __post_init__ is to run; "live": the caller holds
                      \* the object; "dead": the constructor raised and
                      \* returned no object
    lastCall,         \* the call that last normalized: "none",
                      \* "__post_init__", or the method the caller called
    err,              \* the error it raised, or "ok"
    ndown,            \* number of downsample calls it made
    call_num,         \* the arguments it was called with
    call_scaled,
    lastOp,           \* the operation last called on the object
    result,           \* what a property read returned or raised
    from_args,        \* the arguments of the last weighted_intersection
    override          \* the cmp_num / cmp_scaled argument of the constructor

vars == <<heap, mh1, mh2, ignore_abundance, variant, cmp_num, cmp_scaled,
          threshold_bp, mh1_cmp, mh2_cmp, ksize, moltype, pc, lastCall,
          err, ndown, call_num, call_scaled, lastOp, result,
          from_args, override>>

inputs == <<mh1, mh2, ignore_abundance, variant, threshold_bp, override>>
fields == <<cmp_num, cmp_scaled, mh1_cmp, mh2_cmp, ksize, moltype, pc,
            lastCall, err, ndown, call_num, call_scaled>>

NoResult == [t |-> "none", v |-> "none"]
NoArgs == [from_mh |-> NoSource, from_abundD |-> <<>>]

\* the dataclass __init__ has stored its arguments.  BaseMinHashComparison
\* has no __post_init__, the caller holds the object at once; for the two
\* variants __post_init__ has not run yet
Start(pairs) ==
    /\ \E p \in pairs : heap = <<p[1], p[2]>>
    /\ mh1 = 1
    /\ mh2 = 2
    /\ ignore_abundance \in BOOLEAN
    /\ variant \in {"num", "frac", "base"}
    /\ override \in IF variant = "base" THEN {None} ELSE Overrides
    /\ cmp_num = IF variant = "num" THEN override ELSE None
    /\ cmp_scaled = IF variant = "frac" THEN override ELSE None
    /\ threshold_bp \in IF variant = "frac" /\ <<heap[1], heap[2]>> \in ContentPairs
                       THEN Thresholds ELSE {0}
    /\ mh1_cmp = Unset
    /\ mh2_cmp = Unset
    /\ ksize = Unset
    /\ moltype = NoMoltype
    /\ pc = IF variant = "base" THEN "live" ELSE "init"
    /\ lastCall = "none"
    /\ err = "ok"
    /\ ndown = 0
    /\ call_num = None
    /\ call_scaled = None
    /\ lastOp = "__init__"
    /\ result = NoResult
    /\ from_args = NoArgs

Init == Start(InputPairs)

\* objects the comparison refers to; the object a previous read returned is
\* dropped when the next operation starts
owned == {mh1, mh2, mh1_cmp, mh2_cmp}

\* the fields of the comparison when a method is called
cur == [mh1_cmp |-> mh1_cmp, mh2_cmp |-> mh2_cmp,
        ksize |-> ksize, moltype |-> moltype]

\* normalization was called with (num, scaled), by operation op
Called(op, num, scaled) ==
    /\ lastOp' = op
    /\ lastCall' = op
    /\ call_num' = num
    /\ call_scaled' = scaled
    /\ result' = NoResult
    /\ from_args' = NoArgs

\* the fields once check_compatibility_and_downsample has returned or
\* raised with outcome c
Normalized(c) ==
    /\ heap' = c.heap
    /\ mh1_cmp' = c.mh1_cmp
    /\ mh2_cmp' = c.mh2_cmp
    /\ ksize' = c.ksize
    /\ moltype' = c.moltype
    /\ err' = c.err
    /\ ndown' = c.ndown

\* NumMinHashComparison.__post_init__, lines 75-79; a raise propagates out
\* of the constructor
NumPostInit(reuse) ==
    /\ pc = "init"
    /\ variant = "num"
    /\ cmp_num' = IF cmp_num = None
                  THEN default_cmp_num(heap[mh1], heap[mh2]) ELSE cmp_num
    /\ Normalized(check_compatibility_and_downsample(
                      heap, mh1, mh2, ignore_abundance, cmp_num', None, cur,
                      reuse))
    /\ Called("__post_init__", cmp_num', None)
    /\ pc' = IF err' = "ok" THEN "live" ELSE "dead"
    /\ UNCHANGED <<inputs, cmp_scaled>>

\* FracMinHashComparison.__post_init__, lines 89-94
FracPostInit(reuse) ==
    /\ pc = "init"
    /\ variant = "frac"
    /\ cmp_scaled' = IF cmp_scaled = None
                     THEN default_cmp_scaled(heap[mh1], heap[mh2])
                     ELSE cmp_scaled
    /\ Normalized(check_compatibility_and_downsample(
                      heap, mh1, mh2, ignore_abundance, None, cmp_scaled', cur,
                      reuse))
    /\ Called("__post_init__", None, cmp_scaled')
    /\ pc' = IF err' = "ok" THEN "live" ELSE "dead"
    /\ UNCHANGED <<inputs, cmp_num>>

\* lines 36-45 called on an object the caller holds: a
\* BaseMinHashComparison, or a variant after its construction
CheckCompatibilityAndDownsample(num, scaled, reuse) ==
    /\ pc = "live"
    /\ Normalized(check_compatibility_and_downsample(
                      Collect(heap, owned), mh1, mh2, ignore_abundance,
                      num, scaled, cur, reuse))
    /\ Called("check_compatibility_and_downsample", num, scaled)
    /\ UNCHANGED <<inputs, cmp_num, cmp_scaled, pc>>

\* the fields once downsample_and_handle_ignore_abundance has returned or
\* raised with outcome d: ksize and moltype are not touched
Downsampled(d) ==
    /\ heap' = Collect(d.heap, {mh1, mh2, d.mh1_cmp, d.mh2_cmp})
    /\ mh1_cmp' = d.mh1_cmp
    /\ mh2_cmp' = d.mh2_cmp
    /\ err' = d.err
    /\ ndown' = d.ndown

\* lines 17-34 called on an object the caller holds: no kind check, no
\* compatibility check
DownsampleAndHandleIgnoreAbundance(num, scaled, reuse) ==
    /\ pc = "live"
    /\ Downsampled(downsample_and_handle_ignore_abundance(
                       Collect(heap, owned), mh1, mh2, ignore_abundance,
                       num, scaled, reuse))
    /\ Called("downsample_and_handle_ignore_abundance", num, scaled)
    /\ UNCHANGED <<inputs, cmp_num, cmp_scaled, pc, ksize, moltype>>

\* reading self.mh1_cmp before any method has assigned it
AttributeError == [t |-> "error", v |-> "AttributeError"]

\* a property read that returns a value or raises
Read(op, res) ==
    /\ pc = "live"
    /\ lastOp' = op
    /\ result' = IF mh1_cmp = Unset THEN AttributeError ELSE res
    /\ heap' = Collect(heap, owned)
    /\ from_args' = NoArgs
    /\ UNCHANGED <<inputs, fields>>

\* a read that returns a sketch object: r is the heap after and the object
ReadSketch(op, r, args) ==
    /\ pc = "live"
    /\ lastOp' = op
    /\ result' = IF mh1_cmp = Unset THEN AttributeError
                 ELSE [t |-> "ref", v |-> r.ref]
    /\ heap' = IF mh1_cmp = Unset THEN Collect(heap, owned)
               ELSE Collect(r.heap, owned \cup {r.ref})
    /\ from_args' = args
    /\ UNCHANGED <<inputs, fields>>

c1 == heap[mh1_cmp]
c2 == heap[mh2_cmp]
Val(t, v) == [t |-> t, v |-> v]

\* lines 47-50
ReadIntersectMh ==
    ReadSketch("intersect_mh",
               intersect_mh(Collect(heap, owned), mh1_cmp, mh2_cmp), NoArgs)
\* lines 52-54
ReadJaccard == Read("jaccard", Val("ratio", jaccard_of(c1, c2)))
\* lines 56-58
ReadJaccardAni == Read("jaccard_ani", Val("ani", jaccard_of(c1, c2)))
\* lines 60-63
ReadAngularSimilarity ==
    Read("angular_similarity", angular_similarity(heap, mh1_cmp, mh2_cmp))
\* lines 65-67
ReadCosineSimilarity ==
    Read("cosine_similarity", angular_similarity(heap, mh1_cmp, mh2_cmp))
\* lines 96-98
ReadPassThreshold ==
    /\ variant = "frac"
    /\ Read("pass_threshold",
            Val("bool", pass_threshold(heap, mh1_cmp, mh2_cmp,
                                       cmp_scaled, threshold_bp)))
\* lines 100-102
ReadIntersectBp ==
    /\ variant = "frac"
    /\ Read("intersect_bp",
            Val("int", intersect_bp(heap, mh1_cmp, mh2_cmp, cmp_scaled)))
\* lines 104-106
ReadMh1Containment ==
    /\ variant = "frac"
    /\ Read("mh1_containment", Val("ratio", contained_by(c1, c2)))
\* lines 108-112
ReadMh1ContainmentAni ==
    /\ variant = "frac"
    /\ Read("mh1_containment_ani", Val("ani", contained_by(c1, c2)))
\* lines 114-116
ReadMh2Containment ==
    /\ variant = "frac"
    /\ Read("mh2_containment", Val("ratio", contained_by(c2, c1)))
\* lines 118-122
ReadMh2ContainmentAni ==
    /\ variant = "frac"
    /\ Read("mh2_containment_ani", Val("ani", contained_by(c2, c1)))
\* lines 124-126
ReadMaxContainment ==
    /\ variant = "frac"
    /\ Read("max_containment", Val("ratio", max_containment_of(c1, c2)))
\* lines 128-132
ReadMaxContainmentAni ==
    /\ variant = "frac"
    /\ Read("max_containment_ani", Val("ani", max_containment_of(c1, c2)))
\* lines 134-136
ReadAvgContainment ==
    /\ variant = "frac"
    /\ Read("avg_containment",
            Val("ratio", avg_containment(heap, mh1_cmp, mh2_cmp)))
\* lines 138-141: the mean of the two directional point estimates
ReadAvgContainmentAni ==
    /\ variant = "frac"
    /\ Read("avg_containment_ani",
            Val("ani_mean", <<contained_by(c1, c2), contained_by(c2, c1)>>))
\* lines 143-157
WeightedIntersection(from_mh, from_abundD) ==
    /\ variant = "frac"
    /\ ReadSketch("weighted_intersection",
                  weighted_intersection(Collect(heap, owned), mh1_cmp, mh2_cmp,
                                        from_mh, from_abundD),
                  [from_mh |-> from_mh, from_abundD |-> from_abundD])

\* what the engine may do in a downsample(num, scaled) of this comparison:
\* a choice only when one of the sketches already has the resolution
Reuse(num, scaled) ==
    IF \/ at_resolution(heap[mh1], num, scaled)
       \/ at_resolution(heap[mh2], num, scaled)
    THEN BOOLEAN ELSE {FALSE}

\* the resolution a constructor resolves
Resolved ==
    IF override # None THEN override
    ELSE IF variant = "num" THEN default_cmp_num(heap[mh1], heap[mh2])
    ELSE default_cmp_scaled(heap[mh1], heap[mh2])

Next ==
    \/ \E reuse \in Reuse(Resolved, None) : NumPostInit(reuse)
    \/ \E reuse \in Reuse(None, Resolved) : FracPostInit(reuse)
    \/ \E a \in CallArgs : \E reuse \in Reuse(a[1], a[2]) :
           CheckCompatibilityAndDownsample(a[1], a[2], reuse)
    \/ \E a \in CallArgs : \E reuse \in Reuse(a[1], a[2]) :
           DownsampleAndHandleIgnoreAbundance(a[1], a[2], reuse)
    \/ ReadIntersectMh
    \/ ReadJaccard
    \/ ReadJaccardAni
    \/ ReadAngularSimilarity
    \/ ReadCosineSimilarity
    \/ ReadPassThreshold
    \/ ReadIntersectBp
    \/ ReadMh1Containment
    \/ ReadMh1ContainmentAni
    \/ ReadMh2Containment
    \/ ReadMh2ContainmentAni
    \/ ReadMaxContainment
    \/ ReadMaxContainmentAni
    \/ ReadAvgContainment
    \/ ReadAvgContainmentAni
    \/ \E from_abundD \in {<<>>, AllMax} :
           WeightedIntersection(NoSource, from_abundD)

Spec == Init /\ [][Next]_vars

\* weighted_intersection over every abundance source, on comparisons of two
\* flat fixed-rate sketches of every content
InitWI ==
    /\ Start(ContentsOf(0, 1, 0)
                \X UNION {ContentsOf(0, r, 0) : r \in Resolutions})
    /\ variant = "frac"
    /\ ~ignore_abundance
    /\ cmp_scaled = None
    /\ threshold_bp = 0

NextWI ==
    \/ \E reuse \in Reuse(None, Resolved) : FracPostInit(reuse)
    \/ \E a \in WIArgs : WeightedIntersection(a[1], a[2])

SpecWI == InitWI /\ [][NextWI]_vars

\* ---------------------------------------------------------------- claims
o1 == heap[mh1]
o2 == heap[mh2]
IsNum(mh) == mh.num # 0 /\ mh.scaled = 0
IsScaled(mh) == mh.scaled # 0 /\ mh.num = 0
\* the comparison sketches are assigned
Assigned == mh1_cmp # Unset /\ mh2_cmp # Unset
\* a constructor of one of the two variants has run
Constructed == variant \in {"num", "frac"} /\ pc # "init"
\* it returned the comparison, and no normalization method was called since
Built == Constructed /\ pc = "live" /\ lastCall = "__post_init__"
\* the calls that run check_compatibility_and_downsample
CheckCalls == {"__post_init__", "check_compatibility_and_downsample"}
NormOps == CheckCalls \cup {"downsample_and_handle_ignore_abundance"}
IsRead(op) == op \notin NormOps \cup {"__init__"}

\* C1: after a successful construction of either variant the two
\* comparison sketches are of one kind and have one resolution, the resolved
\* cmp_num / cmp_scaled (as they are of one kind and resolution after any
\* normalization call that returned); a construction that cannot achieve
\* this fails and nothing is ever read from it.
C1_SameKindSameResolution ==
    /\ Built =>
          /\ variant = "num" => (IsNum(c1) /\ c1.num = cmp_num)
          /\ variant = "frac" => (IsScaled(c1) /\ c1.scaled = cmp_scaled)
    /\ (lastCall # "none" /\ err = "ok") =>
          /\ (IsNum(c1) /\ IsNum(c2)) \/ (IsScaled(c1) /\ IsScaled(c2))
          /\ c1.num = c2.num
          /\ c1.scaled = c2.scaled
    /\ pc = "dead" =>
          (err # "ok" /\ lastOp = "__post_init__" /\ result = NoResult)

\* a fixed-size comparison of sketches of different sizes was built
C1_Witness ==
    /\ Built
    /\ variant = "num"
    /\ o1.num < o2.num
    /\ heap[mh2_cmp].num = o1.num

Mixed == (IsNum(o1) /\ IsScaled(o2)) \/ (IsScaled(o1) /\ IsNum(o2))

\* C2: a fixed-size sketch and a fixed-rate sketch are rejected with the
\* kind-mismatch error by either variant, with or without an override,
\* before any downsample call and before any statistic.
C2_KindMismatchRejected ==
    /\ (Constructed /\ Mixed) =>
          /\ pc = "dead"
          /\ err = "TypeMismatch"
          /\ ndown = 0
          /\ mh1_cmp = Unset
          /\ mh2_cmp = Unset
          /\ lastOp = "__post_init__"
    /\ (lastCall \in CheckCalls /\ Mixed) => (err = "TypeMismatch" /\ ndown = 0)

C2_Witness ==
    /\ pc = "dead"
    /\ variant = "frac"
    /\ override # None
    /\ IsScaled(o1)
    /\ IsNum(o2)
    /\ err = "TypeMismatch"

\* C4: without an override the resolved resolution is the coarser of the
\* two originals': the larger rate, the smaller sample count.
C4_DefaultResolutionIsCoarser ==
    (Constructed /\ override = None) =>
        /\ variant = "frac" =>
              /\ cmp_scaled \in {o1.scaled, o2.scaled}
              /\ cmp_scaled >= o1.scaled
              /\ cmp_scaled >= o2.scaled
        /\ variant = "num" =>
              /\ cmp_num \in {o1.num, o2.num}
              /\ cmp_num <= o1.num
              /\ cmp_num <= o2.num

\* two rates, the second the coarser, resolve to the second
C4_Witness ==
    /\ Built
    /\ variant = "frac"
    /\ override = None
    /\ o1.scaled = 1
    /\ o2.scaled = 2
    /\ cmp_scaled = 2

Flat(mh) == ~mh.track_abundance /\ \A h \in DOMAIN mh.hashes : mh.hashes[h] = 1

\* C5: with ignore_abundance both comparison sketches are flat whatever the
\* originals track; without it each keeps the abundance mode of its original.
C5_IgnoreAbundanceFlattens ==
    Assigned =>
        /\ ignore_abundance => (Flat(c1) /\ Flat(c2))
        /\ ~ignore_abundance =>
              /\ c1.track_abundance = o1.track_abundance
              /\ c2.track_abundance = o2.track_abundance

C5_Witness ==
    /\ Built
    /\ ignore_abundance
    /\ o1.track_abundance
    /\ o2.track_abundance
    /\ \E h \in DOMAIN o2.hashes : o2.hashes[h] > 1
    /\ DOMAIN c2.hashes # {}

IdentityDiffers == o1.ksize # o2.ksize \/ o1.moltype # o2.moltype

\* both originals can be brought to the resolution normalization was
\* called with (the rate when one is passed, else the sample count)
CanNormalize ==
    IF call_scaled # None
    THEN can_downsample(o1, None, call_scaled) /\ can_downsample(o2, None, call_scaled)
    ELSE can_downsample(o1, call_num, None) /\ can_downsample(o2, call_num, None)

\* C3 as stated: every pair of one kind that differs in ksize or moltype
\* fails with the incompatible-sketch error.
C3_Original ==
    (Constructed /\ ~Mixed /\ IdentityDiffers) =>
        (pc = "dead" /\ err = "Incompatible")

\* C3 amended: a pair of one kind that differs in ksize or moltype always
\* fails, with the incompatible-sketch error when both sketches can be
\* downsampled to the comparison resolution and with the error of the
\* downsampling (or of the missing resolution) otherwise, since that is
\* raised first; two fixed-rate sketches that differ only in their rate are
\* accepted at any resolution both can be coarsened to; ksize and moltype
\* are those of sketch 1 once a check has passed and are unset before.
C3_IncompatibleAfterDownsampling ==
    /\ (lastCall \in CheckCalls /\ ~Mixed /\ IdentityDiffers) =>
          /\ err = IF call_scaled = None /\ call_num = None THEN "NoResolution"
                   ELSE IF CanNormalize THEN "Incompatible"
                   ELSE "DownsampleError"
          /\ Constructed => pc = "dead"
    /\ (lastCall \in CheckCalls /\ IsScaled(o1) /\ IsScaled(o2)
          /\ ~IdentityDiffers
          /\ call_scaled >= o1.scaled /\ call_scaled >= o2.scaled) =>
          /\ err = "ok"
          /\ pc = "live"
    /\ (lastCall \in CheckCalls /\ err = "ok") =>
          (ksize = o1.ksize /\ moltype = o1.moltype)
    /\ (ksize # Unset \/ moltype # NoMoltype) =>
          /\ ksize = o1.ksize /\ moltype = o1.moltype
          /\ ~Mixed /\ ~IdentityDiffers
    /\ pc = "dead" => (ksize = Unset /\ moltype = NoMoltype)

\* two fixed-rate sketches of different rates and different ksize were both
\* downsampled and then rejected
C3_Witness ==
    /\ pc = "dead"
    /\ err = "Incompatible"
    /\ ndown = 2
    /\ o1.scaled # o2.scaled
    /\ o1.ksize # o2.ksize
    /\ o1.moltype = o2.moltype
    /\ c1.scaled = c2.scaled

\* C9 as stated: normalization leaves all four fields set, or fails and
\* leaves none of them set.
C9_Original ==
    /\ (lastCall \in CheckCalls /\ err = "ok") =>
          (Assigned /\ ksize # Unset /\ moltype # NoMoltype)
    /\ (lastCall \in CheckCalls /\ err # "ok") =>
          (~Assigned /\ ksize = Unset /\ moltype = NoMoltype)

\* C9 amended: a normalization that returns leaves all four fields set and
\* validated.  One that raises leaves ksize and moltype as they were: unset
\* when a constructor raised, which returns no comparison to read from, and
\* unset after a kind mismatch or an incompatibility.  mh1_cmp and mh2_cmp
\* are not assigned by a call that raised the kind mismatch; every other
\* failure (missing resolution, downsampling, incompatibility) leaves both
\* assigned on the object.
C9_FailureLeavesNoPassThrough ==
    /\ (lastCall \in CheckCalls /\ err = "ok") =>
          /\ Assigned
          /\ ksize = o1.ksize /\ moltype = o1.moltype
          /\ is_compatible(c1, c2)
    /\ pc = "dead" =>
          /\ err # "ok"
          /\ ksize = Unset /\ moltype = NoMoltype
          /\ lastOp = "__post_init__"
          /\ err = "TypeMismatch" => ~Assigned
    /\ (lastCall \in CheckCalls /\ err \in {"TypeMismatch", "Incompatible"}) =>
          (ksize = Unset /\ moltype = NoMoltype)
    /\ (lastCall # "none" /\ err \notin {"ok", "TypeMismatch"}) => Assigned

\* the first sketch was downsampled, the second could not be and is still
\* the original, and a property was read from the two
C9_Witness ==
    /\ variant = "base"
    /\ lastCall = "check_compatibility_and_downsample"
    /\ err = "DownsampleError"
    /\ ndown = 2
    /\ mh1_cmp \notin {Unset, mh1}
    /\ mh2_cmp = mh2
    /\ ksize = Unset
    /\ lastOp = "jaccard"
    /\ result.t = "ratio"

\* the original already has the resolution normalization was called with
AtCall(mh) == at_resolution(mh, call_num, call_scaled)

AngularOps == {"angular_similarity", "cosine_similarity"}

\* the originals, the comparison sketches and every field of the comparison
\* are after the step what they were before it
ComparisonUnchanged ==
    /\ UNCHANGED <<inputs, fields>>
    /\ \A r \in owned \ {Unset} : r \in DOMAIN heap' /\ heap'[r] = heap[r]

\* C6: on a comparison with ignore_abundance whose comparison sketches are
\* assigned every read of angular_similarity or cosine_similarity raises
\* the unsupported-operation error and changes nothing, and every read of
\* another property, before or after such a failure, returns a value.
C6_AngularFailsLocally ==
    [][(pc = "live" /\ Assigned /\ ignore_abundance) =>
          /\ lastOp' \in AngularOps =>
                /\ result'.t = "error"
                /\ result'.v = "UnsupportedOperation"
                /\ ComparisonUnchanged
          /\ (IsRead(lastOp') /\ lastOp' \notin AngularOps) =>
                result'.t \notin {"error", "none"}]_vars

\* cosine similarity was refused although both originals track abundance
C6_Witness ==
    /\ Built
    /\ ignore_abundance
    /\ o1.track_abundance
    /\ o2.track_abundance
    /\ lastOp = "cosine_similarity"
    /\ result.t = "error"

\* what a read returned: a value, or the sketch behind the reference
Returned(r, h) == IF r.t = "ref" THEN [t |-> "sketch", v |-> h[r.v]] ELSE r

\* C8: no read of a derived property and no weighted_intersection call
\* changes the originals, the comparison sketches or the resolved
\* resolution, and a read repeated with the same arguments returns the same.
C8_ReadsChangeNothing ==
    [][IsRead(lastOp') =>
          /\ ComparisonUnchanged
          /\ (lastOp' = lastOp /\ from_args' = from_args) =>
                Returned(result', heap') = Returned(result, heap)]_vars

\* weighted_intersection has returned a sketch it wrote abundances into
C8_Witness ==
    /\ Built
    /\ lastOp = "weighted_intersection"
    /\ result.t = "ref"
    /\ heap[result.v].track_abundance
    /\ \E h \in DOMAIN heap[result.v].hashes : heap[result.v].hashes[h] > 1
    /\ c1.track_abundance = o1.track_abundance

\* the abundance source weighted_intersection is to use
Chosen ==
    IF from_args.from_mh.given /\ from_args.from_mh.track_abundance
    THEN from_args.from_mh.hashes ELSE from_args.from_abundD
Inter == (DOMAIN c1.hashes) \cap (DOMAIN c2.hashes)
Tagged(r) ==
    /\ r.track_abundance
    /\ DOMAIN r.hashes = Inter
    /\ \A h \in Inter :
          r.hashes[h] = IF h \in DOMAIN Chosen THEN Chosen[h] ELSE 1
Supplied ==
    \/ from_args.from_mh.given /\ from_args.from_mh.track_abundance
    \/ DOMAIN from_args.from_abundD # {}

\* C7 as stated: with a source sketch that tracks abundance, or else an
\* explicit mapping, the result is tagged with the abundances of the source,
\* 1 where the source has none.
C7_Original ==
    (lastOp = "weighted_intersection" /\ Supplied) => Tagged(heap[result.v])

\* C7 amended: when the chosen source (the sketch if it tracks abundance,
\* else the mapping) holds at least one hash the result is tagged with the
\* abundances of the source, 1 where the source has none; when it holds no
\* hash (also a tracking sketch without hashes, whatever the mapping) the
\* result is the plain intersection without abundance.
C7_WeightedIntersectionDefaultsToOne ==
    lastOp = "weighted_intersection" =>
        IF DOMAIN Chosen # {}
        THEN Tagged(heap[result.v])
        ELSE /\ Flat(heap[result.v])
             /\ DOMAIN heap[result.v].hashes = Inter

\* a sketch won over a mapping, gave one hash its abundance and left
\* another to the default
C7_Witness ==
    /\ lastOp = "weighted_intersection"
    /\ from_args.from_mh.given
    /\ from_args.from_mh.track_abundance
    /\ DOMAIN from_args.from_abundD # {}
    /\ \E h \in Inter : h \notin DOMAIN Chosen /\ heap[result.v].hashes[h] = 1
    /\ \E h \in Inter : h \in DOMAIN Chosen /\ heap[result.v].hashes[h] > 1

====
